---- MODULE Spec2Model ----
(***************************************************************************)
(* Model of the jagd question-catalog parser (pkg/pdf/parser.go).          *)
(*                                                                         *)
(* A string is a sequence of tokens: a token is either the single space    *)
(* SP or a word (a maximal run of non-space characters) of a fixed         *)
(* vocabulary.  The regular expressions of parseText only distinguish      *)
(* whitespace from the shape of the words around it, so every pattern is   *)
(* an operator on token sequences; byte lengths are kept per word.         *)
(* Go indexes lines from 0, the model from 1.                              *)
(***************************************************************************)
EXTENDS Integers, Sequences, FiniteSets, TLC

\* ------------------------------------------------------------------ bounds

\* Longest document (in lines) of the single-call specification.
MaxLines == 4
\* Longest document (in lines) over the core lines.
MaxLongLines == 5
\* Longest document (in lines) parsed twice in the batch specification.
MaxBatchLines == 2
\* The clock runs from 0 to MaxClock ticks.
MaxClock == 2
\* Clock ticks per second (time.RFC3339 has a resolution of one second).
TicksPerSecond == 2
\* Longest document (in lines) over the marker lines.
MaxMarkerLines == 4
\* Longest document (in lines) over the rejected numeric lines.
MaxRejectedLines == 4
\* Most text lines after the question-number-only line of a long document,
\* after its inline question line, and after its option line.
MaxNumberFill == 16
MaxInlineFill == 11
MaxOptionFill == 9
\* Longest document (in lines) over the lines around a section header.
MaxHeaderLines == 5
\* Most text lines before the section header of a padded document.
MaxPad == 51

\* ------------------------------------------------------- program constants

QuestionOnlyWindow == 15
InlineQuestionWindow == 10
OptionWindow == 8
CategoryLookback == 50
MinTextLen == 5
CatalogYear == 2025

\* ------------------------------------------------------------------ strings

SP == " "
Nil == "nil"

OptionWords == {"a)", "b)", "c)", "d)", "e)", "f)"}
NumberWords == {"0.", "1.", "2.", "99999999999999999999."}
SectionWords == {"3.1"}

\* len(word) in bytes
WordLen(w) ==
    CASE w = SP -> 1
      [] w = "X" -> 1
      [] w \in OptionWords \cup NumberWords \cup {"2:"} -> 2
      [] w \in {"3.1", "Foo", "Bar"} -> 3
      [] w = "2025" -> 4
      [] w \in {"Wozu?", "Seite"} -> 5
      [] w \in {"Warum?", "Wieso?", "Stand:"} -> 6
      [] w = "Begriffe" -> 8
      [] w = "Sachgebiet" -> 10
      [] w = "99999999999999999999." -> 21

RECURSIVE StrLen(_)
StrLen(s) == IF s = <<>> THEN 0 ELSE WordLen(Head(s)) + StrLen(Tail(s))

\* strconv.Atoi of the digits of a number word: the error (out of range) and
\* the value
AtoiErr(w) == w = "99999999999999999999."
Atoi(w) == CASE w = "0." -> 0 [] w = "1." -> 1 [] w = "2." -> 2 [] OTHER -> 0

LetterOf(w) ==
    CASE w = "a)" -> "a" [] w = "b)" -> "b" [] w = "c)" -> "c"
      [] w = "d)" -> "d" [] w = "e)" -> "e" [] w = "f)" -> "f"

\* strings.Contains(s, sub) for the substrings the parser looks for
HasSachgebiet(s) == \E k \in 1..Len(s) : s[k] = "Sachgebiet"
HasColon(s) == \E k \in 1..Len(s) : s[k] \in {"2:", "Stand:"}
HasStand(s) == \E k \in 1..Len(s) : s[k] = "Stand:"
\* mutant: any inline text will do
HasAnyText(s) == s # <<>>

\* strings.ContainsRune(s, '?')
HasQuestionMark(s) == \E k \in 1..Len(s) : s[k] \in {"Wozu?", "Warum?", "Wieso?"}

NonSpace(s) == {k \in 1..Len(s) : s[k] # SP}
MinOf(S) == CHOOSE x \in S : \A y \in S : x <= y
MaxOf(S) == CHOOSE x \in S : \A y \in S : x >= y

TrimSpace(s) ==
    IF NonSpace(s) = {} THEN <<>> ELSE SubSeq(s, MinOf(NonSpace(s)), MaxOf(NonSpace(s)))

\* the first index >= k of s that holds no space, Len(s)+1 when there is none
SkipSpaces(s, k) ==
    IF \E j \in k..Len(s) : s[j] # SP
    THEN MinOf({j \in k..Len(s) : s[j] # SP})
    ELSE Len(s) + 1

From(s, k) == SubSeq(s, k, Len(s))

\* a + " " + b
JoinSpace(a, b) == a \o <<SP>> \o b

\* strings.ReplaceAll(s, "  ", " "): non-overlapping, left to right
RECURSIVE CollapseDouble(_)
CollapseDouble(s) ==
    IF Len(s) < 2 THEN s
    ELSE IF s[1] = SP /\ s[2] = SP THEN <<SP>> \o CollapseDouble(From(s, 3))
    ELSE <<s[1]>> \o CollapseDouble(Tail(s))

\* ----------------------------------------------------------------- patterns

\* ^\s*$
MatchEmpty(s) == NonSpace(s) = {}

\* ^\s*(\d+)\.\s*$
MatchQuestionOnly(s) == LET t == TrimSpace(s) IN Len(t) = 1 /\ t[1] \in NumberWords

\* ^\s*(\d+)\.\s+(.+)$
MatchQuestionWithText(s) ==
    LET t == From(s, SkipSpaces(s, 1))
    IN  Len(t) >= 3 /\ t[1] \in NumberWords /\ t[2] = SP

\* the groups of questionWithTextPattern
QuestionNumberWord(s) == s[SkipSpaces(s, 1)]
QuestionInlineText(s) ==
    LET t == From(s, SkipSpaces(s, 1)) IN From(t, SkipSpaces(t, 2))

\* ^\s*([a-f])\)\s*(.*)$
MatchOptionLine(s) ==
    LET t == From(s, SkipSpaces(s, 1)) IN Len(t) >= 1 /\ t[1] \in OptionWords

OptionLineLetter(s) == LetterOf(s[SkipSpaces(s, 1)])
OptionLineText(s) ==
    LET t == From(s, SkipSpaces(s, 1)) IN From(t, SkipSpaces(t, 2))

\* ^\s*X\s+([a-f])\)\s*(.*)$
MatchOptionWithX(s) ==
    LET t == From(s, SkipSpaces(s, 1))
    IN  /\ Len(t) >= 3
        /\ t[1] = "X"
        /\ t[2] = SP
        /\ SkipSpaces(t, 2) <= Len(t)
        /\ t[SkipSpaces(t, 2)] \in OptionWords

OptionWithXLetter(s) ==
    LET t == From(s, SkipSpaces(s, 1)) IN LetterOf(t[SkipSpaces(t, 2)])
OptionWithXText(s) ==
    LET t == From(s, SkipSpaces(s, 1))
    IN  From(t, SkipSpaces(t, SkipSpaces(t, 2) + 1))

\* ^\s*X\s*$
MatchJustX(s) == TrimSpace(s) = <<"X">>

\* ^\s*\d+\.\d+\s+
MatchSectionHeader(s) ==
    LET t == From(s, SkipSpaces(s, 1))
    IN  Len(t) >= 2 /\ t[1] \in SectionWords /\ t[2] = SP

IsCategoryLine(s) == HasSachgebiet(s) /\ HasColon(s)

IsBoilerplate(s) ==
    \E k \in 1..Len(s) : s[k] \in {"Stand:", "Seite", "Zweitkorrektor", "HERAUSGEBER"}

\* the start of the whitespace run that ends just before index k
SpaceRunStart(s, k) ==
    MinOf({j \in 1..k : \A m \in j..(k - 1) : s[m] = SP})

\* the positions k of a word X that has whitespace before it and, after
\* whitespace, an option word
XOptionAt(s, k) ==
    /\ s[k] = "X"
    /\ k > 1 /\ s[k - 1] = SP
    /\ k < Len(s) /\ s[k + 1] = SP
    /\ SkipSpaces(s, k + 1) <= Len(s)
    /\ s[SkipSpaces(s, k + 1)] \in OptionWords

\* regexp `\s+X\s+[a-f]\)\s*$` replaced by ""
StripTrailingXOption(s) ==
    LET hits == {k \in 1..Len(s) :
                    XOptionAt(s, k) /\ NonSpace(From(s, SkipSpaces(s, k + 1) + 1)) = {}}
    IN  IF hits = {} THEN s ELSE SubSeq(s, 1, SpaceRunStart(s, MinOf(hits)) - 1)

\* regexp `\s+X\s+[a-f]\).*$` replaced by ""
StripFromXOption(s) ==
    LET hits == {k \in 1..Len(s) : XOptionAt(s, k)}
    IN  IF hits = {} THEN s ELSE SubSeq(s, 1, SpaceRunStart(s, MinOf(hits)) - 1)

\* regexp `\s+X\s*$` replaced by ""
StripTrailingX(s) ==
    LET t == NonSpace(s)
    IN  IF t # {} /\ s[MaxOf(t)] = "X" /\ MaxOf(t) > 1 /\ s[MaxOf(t) - 1] = SP
        THEN SubSeq(s, 1, SpaceRunStart(s, MaxOf(t)) - 1)
        ELSE s

\* regexp `\s+[a-f]\)\s*$` replaced by ""
StripTrailingOption(s) ==
    LET t == NonSpace(s)
    IN  IF t # {} /\ s[MaxOf(t)] \in OptionWords /\ MaxOf(t) > 1 /\ s[MaxOf(t) - 1] = SP
        THEN SubSeq(s, 1, SpaceRunStart(s, MaxOf(t)) - 1)
        ELSE s

\* ------------------------------------------------------------- accumulation

\* the lookahead of a question-number-only line i: parser.go 155-173
RECURSIVE AccumQuestionOnly(_, _, _, _)
AccumQuestionOnly(ls, i, j, acc) ==
    IF j > Len(ls) \/ j >= i + QuestionOnlyWindow THEN acc
    ELSE LET nextLine == TrimSpace(ls[j])
         IN  IF MatchEmpty(nextLine) THEN AccumQuestionOnly(ls, i, j + 1, acc)
             ELSE IF \/ MatchOptionLine(nextLine)
                     \/ MatchOptionWithX(nextLine)
                     \/ MatchJustX(nextLine) THEN acc
             ELSE IF MatchQuestionOnly(nextLine) \/ MatchQuestionWithText(nextLine) THEN acc
             ELSE AccumQuestionOnly(ls, i, j + 1, JoinSpace(acc, nextLine))

QuestionOnlyText(ls, i) ==
    StripTrailingXOption(TrimSpace(AccumQuestionOnly(ls, i, i + 1, <<>>)))

\* the lookahead of an inline question line i: parser.go 199-217
RECURSIVE AccumInlineQuestion(_, _, _, _)
AccumInlineQuestion(ls, i, j, acc) ==
    IF j > Len(ls) \/ j >= i + InlineQuestionWindow THEN acc
    ELSE LET nextLine == TrimSpace(ls[j])
         IN  IF MatchEmpty(nextLine) THEN AccumInlineQuestion(ls, i, j + 1, acc)
             ELSE IF MatchOptionLine(nextLine) THEN acc
             ELSE IF MatchQuestionOnly(nextLine) \/ MatchQuestionWithText(nextLine) THEN acc
             ELSE AccumInlineQuestion(ls, i, j + 1, JoinSpace(acc, nextLine))

InlineQuestionText(ls, i) ==
    LET first == TrimSpace(QuestionInlineText(TrimSpace(ls[i])))
        joined == AccumInlineQuestion(ls, i, i + 1, first)
    IN  TrimSpace(StripFromXOption(CollapseDouble(TrimSpace(joined))))

\* mutant: the option lookahead runs on until a terminator
RECURSIVE AccumOptionUnbounded(_, _, _, _)
AccumOptionUnbounded(ls, i, j, acc) ==
    IF j > Len(ls) THEN acc
    ELSE LET nextLine == TrimSpace(ls[j])
         IN  IF MatchEmpty(nextLine) THEN AccumOptionUnbounded(ls, i, j + 1, acc)
             ELSE IF MatchOptionLine(nextLine) \/ MatchOptionWithX(nextLine) THEN acc
             ELSE IF MatchQuestionOnly(nextLine) \/ MatchQuestionWithText(nextLine) THEN acc
             ELSE IF HasSachgebiet(nextLine) \/ HasStand(nextLine) THEN acc
             ELSE AccumOptionUnbounded(ls, i, j + 1, JoinSpace(acc, nextLine))

\* the lookahead of an option line i: parser.go 242-261 and 280-299
RECURSIVE AccumOption(_, _, _, _)
AccumOption(ls, i, j, acc) ==
    IF j > Len(ls) \/ j >= i + OptionWindow THEN acc
    ELSE LET nextLine == TrimSpace(ls[j])
         IN  IF MatchEmpty(nextLine) THEN AccumOption(ls, i, j + 1, acc)
             ELSE IF MatchOptionLine(nextLine) \/ MatchOptionWithX(nextLine) THEN acc
             ELSE IF MatchQuestionOnly(nextLine) \/ MatchQuestionWithText(nextLine) THEN acc
             ELSE IF HasSachgebiet(nextLine) \/ HasStand(nextLine) THEN acc
             ELSE AccumOption(ls, i, j + 1, JoinSpace(acc, nextLine))

OptionText(ls, i, first) ==
    TrimSpace(StripTrailingOption(StripTrailingX(
        TrimSpace(AccumOption(ls, i, i + 1, TrimSpace(first))))))

\* the text accumulated for a question line i, by its shape
QuestionTextAt(ls, i) ==
    IF MatchQuestionOnly(TrimSpace(ls[i])) THEN QuestionOnlyText(ls, i)
    ELSE InlineQuestionText(ls, i)

\* ------------------------------------------------------------------ drafts

NoOptions == [l \in {} |-> Nil]
NoDrafts == [n \in {} |-> Nil]

\* newRawQuestion
newRawQuestion(number, qText) == [number |-> number, text |-> qText, options |-> NoOptions]

\* mutant: a draft seen again keeps the options it had
CommitQuestionMerging(rq, qNum, qText) ==
    IF StrLen(qText) > MinTextLen
    THEN [n \in DOMAIN rq \cup {qNum} |->
             IF n = qNum
             THEN IF qNum \in DOMAIN rq
                  THEN [rq[qNum] EXCEPT !.text = qText]
                  ELSE newRawQuestion(qNum, qText)
             ELSE rq[n]]
    ELSE rq

\* if len(qText) > 5 { rawQuestions[qNum] = newRawQuestion(qNum, qText) }
CommitQuestion(rq, qNum, qText) ==
    IF StrLen(qText) > MinTextLen
    THEN [n \in DOMAIN rq \cup {qNum} |->
             IF n = qNum THEN newRawQuestion(qNum, qText) ELSE rq[n]]
    ELSE rq

\* mutant: an option already held under the letter is kept
CommitOptionKeepingFirst(rq, last, letter, optText, correct) ==
    [rq EXCEPT ![last].options =
        [l \in DOMAIN @ \cup {letter} |->
            IF l \in DOMAIN @ THEN @[l]
            ELSE [Letter |-> letter, Text |-> optText, Correct |-> correct]]]

\* rawQuestions[lastQuestionNum].options[letter] = &models.Option{...}
CommitOption(rq, last, letter, optText, correct) ==
    [rq EXCEPT ![last].options =
        [l \in DOMAIN @ \cup {letter} |->
            IF l = letter
            THEN [Letter |-> letter, Text |-> optText, Correct |-> correct]
            ELSE @[l]]]

\* mutant: the boilerplate skip comes before the category update
UpdateCategoryUnlessBoilerplate(category, t) ==
    IF IsCategoryLine(t) /\ ~IsBoilerplate(t) THEN t ELSE category

UpdateCategory(category, t) == IF IsCategoryLine(t) THEN t ELSE category

\* nextOptionIsCorrect after a standalone X line
MarkPending(last, pending) == IF last > 0 THEN TRUE ELSE pending

\* the option lines are looked at only under this condition
OptionsOpen(rq, last) == last > 0 /\ last \in DOMAIN rq

\* what one line does: the line's classification, parser.go 124-316
LineKind(s, t) ==
    IF MatchEmpty(t) THEN "blank"
    ELSE IF IsBoilerplate(t) THEN "boilerplate"
    ELSE IF MatchQuestionOnly(t)
         THEN IF AtoiErr(t[1]) \/ Atoi(t[1]) < 1 THEN "rejected" ELSE "questionOnly"
    ELSE IF MatchQuestionWithText(t)
         THEN IF AtoiErr(QuestionNumberWord(t)) \/ Atoi(QuestionNumberWord(t)) < 1
              THEN "rejected"
              ELSE IF ~HasQuestionMark(QuestionInlineText(t)) THEN "rejected"
              ELSE "questionInline"
    ELSE IF s.lastQuestionNum > 0 /\ MatchJustX(t) THEN "justX"
    ELSE IF OptionsOpen(s.rawQuestions, s.lastQuestionNum) /\ MatchOptionWithX(t)
         THEN "optionWithX"
    ELSE IF OptionsOpen(s.rawQuestions, s.lastQuestionNum) /\ MatchOptionLine(t)
         THEN "option"
    ELSE "other"

\* one iteration of the main loop on line i: the session after it
Step(s, ls, i) ==
    LET t == TrimSpace(ls[i])
        kind == LineKind(s, t)
        c == [s EXCEPT !.currentCategory = UpdateCategory(@, t)]
    IN  CASE kind = "blank" -> s
          [] kind \in {"questionOnly", "questionInline"} ->
                [c EXCEPT !.lastQuestionNum = Atoi(QuestionNumberWord(t)),
                          !.rawQuestions =
                              CommitQuestion(@, Atoi(QuestionNumberWord(t)),
                                             QuestionTextAt(ls, i))]
          [] kind = "justX" ->
                [c EXCEPT !.nextOptionIsCorrect = MarkPending(c.lastQuestionNum, @)]
          [] kind = "optionWithX" ->
                [c EXCEPT !.rawQuestions =
                              CommitOption(@, c.lastQuestionNum, OptionWithXLetter(t),
                                           OptionText(ls, i, OptionWithXText(t)), TRUE),
                          !.nextOptionIsCorrect = FALSE]
          [] kind = "option" ->
                [c EXCEPT !.rawQuestions =
                              CommitOption(@, c.lastQuestionNum, OptionLineLetter(t),
                                           OptionText(ls, i, OptionLineText(t)),
                                           c.nextOptionIsCorrect),
                          !.nextOptionIsCorrect = FALSE]
          [] OTHER -> c

\* ---------------------------------------------------------------- finalizer

\* the exchange sort of parser.go 326-332 on a 1-based sequence
RECURSIVE SortFrom(_, _, _)
SortFrom(q, a, b) ==
    IF a > Len(q) THEN q
    ELSE IF b > Len(q) THEN SortFrom(q, a + 1, a + 2)
    ELSE IF q[b] < q[a]
         THEN SortFrom([q EXCEPT ![a] = q[b], ![b] = q[a]], a, b + 1)
         ELSE SortFrom(q, a, b + 1)

\* mutant: the numbers are left in the order the map yielded them
SortNumsSkipped(q) == q

SortNums(q) == SortFrom(q, 1, 2)

Letters == <<"a", "b", "c", "d", "e", "f">>

\* the options map as a slice in letter order: parser.go 340-346
RECURSIVE OptionsFrom(_, _)
OptionsFrom(options, k) ==
    IF k > Len(Letters) THEN <<>>
    ELSE IF Letters[k] \in DOMAIN options
         THEN <<options[Letters[k]]>> \o OptionsFrom(options, k + 1)
         ELSE OptionsFrom(options, k + 1)

\* mutant: the letters are walked from f down to a
RECURSIVE OptionsDownFrom(_, _)
OptionsDownFrom(options, k) ==
    IF k < 1 THEN <<>>
    ELSE IF Letters[k] \in DOMAIN options
         THEN <<options[Letters[k]]>> \o OptionsDownFrom(options, k - 1)
         ELSE OptionsDownFrom(options, k - 1)

BuildOptionsReversed(options) == OptionsDownFrom(options, Len(Letters))

BuildOptions(options) == OptionsFrom(options, 1)

\* mutant: the options are not looked at
PromotedByText(rq) == StrLen(rq.text) > MinTextLen

\* if len(rq.text) > 5 && len(rq.options) > 0
Promoted(rq) == StrLen(rq.text) > MinTextLen /\ DOMAIN rq.options # {}

\* the loop of parser.go 335-356 over the sorted numbers
RECURSIVE BuildQuestions(_, _, _, _)
BuildQuestions(rq, nums, k, category) ==
    IF k > Len(nums) THEN <<>>
    ELSE IF Promoted(rq[nums[k]])
         THEN <<[ID |-> rq[nums[k]].number,
                 Text |-> rq[nums[k]].text,
                 Options |-> BuildOptions(rq[nums[k]].options),
                 Category |-> category]>>
              \o BuildQuestions(rq, nums, k + 1, category)
         ELSE BuildQuestions(rq, nums, k + 1, category)

\* the orders in which ranging over a Go map can yield its keys
KeyOrders(S) ==
    {q \in [1..Cardinality(S) -> S] : \A a, b \in 1..Cardinality(S) : a # b => q[a] # q[b]}

\* ------------------------------------------------------------ header skip

\* parser.go 106-122: the first section header and the category seeded there
HeaderLines(ls) == {k \in 1..Len(ls) : MatchSectionHeader(TrimSpace(ls[k]))}

\* mutant: the main loop starts at the first line
StartIndexZero(ls) == 1

StartIndex(ls) == IF HeaderLines(ls) = {} THEN 1 ELSE MinOf(HeaderLines(ls))

\* mutant: the backward scan runs to the first line
SeedCategoryAnyDistance(ls, category) ==
    IF HeaderLines(ls) = {} THEN category
    ELSE LET h == MinOf(HeaderLines(ls))
             back == {j \in 1..(h - 1) : IsCategoryLine(TrimSpace(ls[j]))}
         IN  IF back = {} THEN category ELSE TrimSpace(ls[MaxOf(back)])

SeedCategory(ls, category) ==
    IF HeaderLines(ls) = {} THEN category
    ELSE LET h == MinOf(HeaderLines(ls))
             back == {j \in 1..(h - 1) :
                         j >= h - CategoryLookback /\ IsCategoryLine(TrimSpace(ls[j]))}
         IN  IF back = {} THEN category ELSE TrimSpace(ls[MaxOf(back)])

\* ---------------------------------------------------------------- documents

\* a line written as its words, single spaces between them
RECURSIVE Ln(_)
Ln(ws) == IF Len(ws) <= 1 THEN ws ELSE <<Head(ws), SP>> \o Ln(Tail(ws))

CategoryLine == Ln(<<"Sachgebiet", "2:">>)
NumberLine == Ln(<<"1.">>)
Question1 == Ln(<<"1.", "Warum?">>)
Question2 == Ln(<<"2.", "Warum?">>)
XLine == Ln(<<"X">>)
OptionA == Ln(<<"a)", "Foo">>)
OptionB == Ln(<<"b)", "Bar">>)
MarkedA == Ln(<<"X", "a)", "Foo">>)
TextLine == Ln(<<"Wieso?">>)

Alphabet ==
    {CategoryLine, NumberLine, Question1, Question2, XLine, OptionA, OptionB,
     MarkedA, TextLine}

CoreAlphabet == {NumberLine, Question1, XLine, OptionA, OptionB}

BatchAlphabet == {Question1, XLine, OptionA, OptionB, MarkedA, CategoryLine}

\* lines that carry a boilerplate marker or the category marker
PageLine == Ln(<<"Seite", "2025">>)
StampedCategory == Ln(<<"Sachgebiet", "2:", "Stand:", "2025">>)
QuestionCategory == Ln(<<"1.", "Sachgebiet", "2:", "Warum?">>)
OptionCategory == Ln(<<"a)", "Sachgebiet", "2:">>)

\* numeric-dot lines that are no question lines
ZeroLine == Ln(<<"0.">>)
OverflowLine == Ln(<<"99999999999999999999.">>)
ZeroQuestion == Ln(<<"0.", "Warum?">>)
PlainInline == Ln(<<"2.", "Foo">>)

RejectedAlphabet ==
    {Question1, XLine, OptionA, ZeroLine, OverflowLine, ZeroQuestion, PlainInline}

\* a subsection header
HeaderLine == Ln(<<"3.1", "Begriffe">>)

HeaderAlphabet == {HeaderLine, CategoryLine, Question1, OptionA, XLine}

MarkerAlphabet ==
    {Question1, OptionA, TextLine, CategoryLine, PageLine, StampedCategory,
     QuestionCategory, OptionCategory}

SeqsUpTo(S, n) == UNION {[1..m -> S] : m \in 0..n}

Documents == SeqsUpTo(Alphabet, MaxLines)
LongDocuments == SeqsUpTo(CoreAlphabet, MaxLongLines)
BatchDocuments == SeqsUpTo(BatchAlphabet, MaxBatchLines)
MarkerDocuments == SeqsUpTo(MarkerAlphabet, MaxMarkerLines)

\* k lines of text, the first of them blank if so chosen
Fill(k, blankFirst) == [x \in 1..k |-> IF blankFirst /\ x = 1 THEN <<>> ELSE TextLine]

\* a question-number-only line, an inline question line and an option line,
\* each followed by lines of text
WindowDocuments ==
    {<<NumberLine>> \o Fill(k1, b) \o <<Question2>> \o Fill(k2, b)
       \o <<OptionA>> \o Fill(k3, b) :
        k1 \in 0..MaxNumberFill, k2 \in 0..MaxInlineFill, k3 \in 0..MaxOptionFill,
        b \in BOOLEAN}
RejectedDocuments == SeqsUpTo(RejectedAlphabet, MaxRejectedLines)
HeaderDocuments == SeqsUpTo(HeaderAlphabet, MaxHeaderLines)

\* up to two category lines, each followed by lines of text, before a section
\* header and a question
SeedDocuments ==
    {c1 \o Fill(a, FALSE) \o c2 \o Fill(b, FALSE) \o <<HeaderLine, Question1, OptionA>> :
        c1 \in {<<>>, <<CategoryLine>>}, c2 \in {<<>>, <<OptionCategory>>},
        a \in 0..MaxPad, b \in 0..MaxPad}

\* a document that leaves every field of the session set when its parse ends
OtherDocument == <<CategoryLine, Question2, OptionB, XLine>>

ExtractorFailures == {"executable file not found", "exit status 1"}

\* -------------------------------------------------------------------- state

VARIABLES
    batch,                \* the documents the caller parses, in order
    callNo,               \* the number of ParseFile calls started
    pc,                   \* where the current call is
    now,                  \* the clock, in ticks
    text,                 \* the extractor's output, as its lines
    lines,                \* parseText: strings.Split(text, "\n")
    i,                    \* parseText: the main loop's index
    rawQuestions,         \* parseText: the drafts by number
    lastQuestionNum,      \* parseText
    currentCategory,      \* parseText
    nextOptionIsCorrect,  \* parseText
    startIdx,             \* parseText
    catalog,              \* parseText: the catalog under construction
    results,              \* what each finished call returned
    questionLine,         \* history: the line that created each draft
    questionCategory,     \* history: the category current at that line
    optionLine,           \* history: the line that last wrote each option
    replacedDraft,        \* history: the drafts overwritten by a later one
    before,               \* history: the session before the line last classified
    classified,           \* history: the lines classified so far, in order
    extractCalls,         \* history: extractor runs of the current call
    parseTextCalls,       \* history: parseText runs of the current call
    failure               \* history: what the extractor last failed with

vars ==
    <<batch, callNo, pc, now, text, lines, i, rawQuestions, lastQuestionNum,
      currentCategory, nextOptionIsCorrect, startIdx, catalog, results,
      questionLine, questionCategory, optionLine, replacedDraft, before,
      classified, extractCalls, parseTextCalls, failure>>

callVars == <<batch, callNo, now, results>>
sessionVars ==
    <<lines, i, rawQuestions, lastQuestionNum, currentCategory,
      nextOptionIsCorrect, startIdx, catalog>>
historyVars ==
    <<questionLine, questionCategory, optionLine, replacedDraft, before, classified>>

Session ==
    [rawQuestions |-> rawQuestions, lastQuestionNum |-> lastQuestionNum,
     currentCategory |-> currentCategory, nextOptionIsCorrect |-> nextOptionIsCorrect]

\* mutant: the session lives outside parseText and is never reset
KeptSession == Session

\* the locals of parseText as declared: parser.go 97-101
NewSession ==
    [rawQuestions |-> NoDrafts, lastQuestionNum |-> 0,
     currentCategory |-> <<>>, nextOptionIsCorrect |-> FALSE]

\* time.Now().Format(time.RFC3339): the second the clock is in
FormatRFC3339(t) == t \div TicksPerSecond

\* mutant: the year is taken from the clock
NewCatalogClockYear(t) ==
    [Title |-> "Jagdfragepruefer Bayern", Year |-> CatalogYear + FormatRFC3339(t),
     State |-> "by", Subject |-> "Jagdwaffen, Jagd- und Fanggeraete", TotalCount |-> 0,
     Questions |-> <<>>, LastModified |-> FormatRFC3339(t)]

\* parser.go 78-85 (the umlauts of the title and subject transliterated)
NewCatalog(t) ==
    [Title |-> "Jagdfragepruefer Bayern", Year |-> CatalogYear, State |-> "by",
     Subject |-> "Jagdwaffen, Jagd- und Fanggeraete", TotalCount |-> 0,
     Questions |-> <<>>, LastModified |-> FormatRFC3339(t)]

InitWith(b) ==
    /\ batch = b
    /\ callNo = 0
    /\ pc = "idle"
    /\ now = 0
    /\ text = <<>>
    /\ lines = <<>>
    /\ i = 1
    /\ rawQuestions = NoDrafts
    /\ lastQuestionNum = 0
    /\ currentCategory = <<>>
    /\ nextOptionIsCorrect = FALSE
    /\ startIdx = 1
    /\ catalog = Nil
    /\ results = <<>>
    /\ questionLine = NoDrafts
    /\ questionCategory = NoDrafts
    /\ optionLine = NoDrafts
    /\ replacedDraft = {}
    /\ before = NewSession
    /\ classified = <<>>
    /\ extractCalls = 0
    /\ parseTextCalls = 0
    /\ failure = Nil

\* one ParseFile call on one document
Init == \E d \in Documents : InitWith(<<d>>)

\* one ParseFile call on one longer document over fewer lines
InitLong == \E d \in LongDocuments : InitWith(<<d>>)

\* one ParseFile call on one document over the marker lines
InitMarkers == \E d \in MarkerDocuments : InitWith(<<d>>)

\* one ParseFile call on one document over the rejected numeric lines
InitRejected == \E d \in RejectedDocuments : InitWith(<<d>>)

\* one ParseFile call on one document with long runs of text lines
InitWindow == \E d \in WindowDocuments : InitWith(<<d>>)

\* one ParseFile call on one document with section headers
InitHeader == \E d \in HeaderDocuments : InitWith(<<d>>)

\* one ParseFile call on one document with a padded section header
InitSeed == \E d \in SeedDocuments : InitWith(<<d>>)

\* a caller parsing a document, another one, and the first again
InitBatch == \E d \in BatchDocuments : InitWith(<<d, OtherDocument, d>>)

\* ------------------------------------------------------------------ actions

\* ParseFile: NewParser(filename).Parse() is entered
ParseFile ==
    /\ pc = "idle"
    /\ callNo < Len(batch)
    /\ callNo' = callNo + 1
    /\ pc' = "extract"
    /\ extractCalls' = 0
    /\ parseTextCalls' = 0
    /\ failure' = Nil
    /\ UNCHANGED <<batch, now, results, text, sessionVars, historyVars>>

\* extractTextFromPDF succeeds: Parse goes on to parseText
ExtractOk ==
    /\ pc = "extract"
    /\ extractCalls' = extractCalls + 1
    /\ text' = batch[callNo]
    /\ pc' = "parseText"
    /\ UNCHANGED <<callVars, sessionVars, historyVars, parseTextCalls, failure>>

\* mutant: a failed extraction is tried again
ExtractFailRetried ==
    /\ pc = "extract"
    /\ \E cause \in ExtractorFailures : failure' = cause
    /\ extractCalls' = extractCalls + 1
    /\ UNCHANGED <<callVars, pc, text, sessionVars, historyVars, parseTextCalls>>

\* extractTextFromPDF fails: Parse wraps the error and returns it
ExtractFail ==
    /\ pc = "extract"
    /\ \E cause \in ExtractorFailures :
          /\ failure' = cause
          /\ results' = Append(results,
                 [ok |-> FALSE, at |-> now, catalog |-> Nil,
                  err |-> <<"failed to extract text from PDF", "pdftotext failed", cause>>])
    /\ extractCalls' = extractCalls + 1
    /\ pc' = "idle"
    /\ UNCHANGED <<batch, callNo, now, text, sessionVars, historyVars, parseTextCalls>>

\* parseText up to its main loop: parser.go 78-122
ParseTextBegin ==
    /\ pc = "parseText"
    /\ parseTextCalls' = parseTextCalls + 1
    /\ catalog' = NewCatalog(now)
    /\ lines' = text
    /\ rawQuestions' = NewSession.rawQuestions
    /\ lastQuestionNum' = NewSession.lastQuestionNum
    /\ nextOptionIsCorrect' = NewSession.nextOptionIsCorrect
    /\ currentCategory' = SeedCategory(text, NewSession.currentCategory)
    /\ startIdx' = StartIndex(text)
    /\ i' = StartIndex(text)
    /\ questionLine' = NoDrafts
    /\ questionCategory' = NoDrafts
    /\ optionLine' = NoDrafts
    /\ replacedDraft' = {}
    /\ before' = [NewSession EXCEPT !.currentCategory = SeedCategory(text, @)]
    /\ classified' = <<>>
    /\ pc' = "scan"
    /\ UNCHANGED <<callVars, text, extractCalls, failure>>

\* mutant: a line a question line has joined right after itself is not
\* classified when its turn comes
NextIndexPastJoined(ls, k) ==
    LET t == TrimSpace(ls[k])
        n == TrimSpace(ls[k + 1])
        question == MatchQuestionOnly(n) \/ MatchQuestionWithText(n)
    IN  IF k >= Len(ls) \/ MatchEmpty(n) \/ MatchOptionLine(n) \/ question THEN k + 1
        ELSE IF MatchQuestionOnly(t) /\ ~MatchOptionWithX(n) /\ ~MatchJustX(n) THEN k + 2
        ELSE IF MatchQuestionWithText(t) THEN k + 2
        ELSE k + 1

\* for i := startIdx; i < len(lines); i++
NextIndex(ls, k) == k + 1

\* one iteration of the main loop: parser.go 124-317
ProcessLine ==
    /\ pc = "scan"
    /\ i <= Len(lines)
    /\ LET t == TrimSpace(lines[i])
           kind == LineKind(Session, t)
           after == Step(Session, lines, i)
           opened == kind \in {"questionOnly", "questionInline"}
                     /\ StrLen(QuestionTextAt(lines, i)) > MinTextLen
           n == after.lastQuestionNum
           wrote == kind \in {"optionWithX", "option"}
           letter == IF kind = "optionWithX" THEN OptionWithXLetter(t)
                     ELSE OptionLineLetter(t)
       IN  /\ rawQuestions' = after.rawQuestions
           /\ lastQuestionNum' = after.lastQuestionNum
           /\ currentCategory' = after.currentCategory
           /\ nextOptionIsCorrect' = after.nextOptionIsCorrect
           /\ questionLine' =
                 IF opened THEN (n :> i) @@ questionLine ELSE questionLine
           /\ questionCategory' =
                 IF opened THEN (n :> after.currentCategory) @@ questionCategory
                 ELSE questionCategory
           /\ optionLine' =
                 IF opened THEN (n :> NoOptions) @@ optionLine
                 ELSE IF wrote THEN [optionLine EXCEPT ![n] = (letter :> i) @@ @]
                 ELSE optionLine
           /\ replacedDraft' =
                 IF opened /\ n \in DOMAIN rawQuestions
                 THEN replacedDraft \cup {rawQuestions[n]}
                 ELSE replacedDraft
    /\ before' = Session
    /\ classified' = Append(classified, i)
    /\ i' = NextIndex(lines, i)
    /\ UNCHANGED <<callVars, pc, text, lines, startIdx, catalog, extractCalls,
                   parseTextCalls, failure>>

\* the catalog is built and Parse returns it: parser.go 319-359 and 43-48
Finalize ==
    /\ pc = "scan"
    /\ i > Len(lines)
    /\ \E questionNums \in KeyOrders(DOMAIN rawQuestions) :
          LET qs == BuildQuestions(rawQuestions, SortNums(questionNums), 1, currentCategory)
              done == [catalog EXCEPT !.Questions = qs, !.TotalCount = Len(qs)]
          IN  /\ catalog' = done
              /\ results' = Append(results, [ok |-> TRUE, at |-> now, catalog |-> done, err |-> Nil])
    /\ pc' = "idle"
    /\ UNCHANGED <<batch, callNo, now, text, lines, i, rawQuestions, lastQuestionNum,
                   currentCategory, nextOptionIsCorrect, startIdx, historyVars,
                   extractCalls, parseTextCalls, failure>>

\* time passes between two calls
Tick ==
    /\ pc = "idle"
    /\ now < MaxClock
    /\ now' = now + 1
    /\ UNCHANGED <<batch, callNo, pc, results, text, sessionVars, historyVars,
                   extractCalls, parseTextCalls, failure>>

Next == ParseFile \/ ExtractOk \/ ExtractFail \/ ParseTextBegin \/ ProcessLine \/ Finalize

NextBatch == Next \/ Tick

Spec == Init /\ [][Next]_vars

SpecLong == InitLong /\ [][Next]_vars

SpecBatch == InitBatch /\ [][NextBatch]_vars

SpecMarkers == InitMarkers /\ [][Next]_vars

SpecRejected == InitRejected /\ [][Next]_vars

SpecWindow == InitWindow /\ [][Next]_vars

SpecHeader == InitHeader /\ [][Next]_vars

SpecSeed == InitSeed /\ [][Next]_vars

\* ------------------------------------------------------------------- claims

\* the current call has returned a catalog
Returned ==
    /\ pc = "idle"
    /\ callNo >= 1
    /\ Len(results) = callNo
    /\ results[callNo].ok

Final == results[callNo].catalog

Line(k) == TrimSpace(lines[k])
OptionShaped(t) == MatchOptionLine(t) \/ MatchOptionWithX(t)
LettersOf(q) == {q.Options[k].Letter : k \in 1..Len(q.Options)}
LetterIndex(l) == CHOOSE k \in 1..Len(Letters) : Letters[k] = l

\* C1: every question of the returned catalog carries the category that was
\* current when its question line was processed.
C1_CategoryWhenOpened ==
    Returned =>
        \A k \in 1..Len(Final.Questions) :
            Final.Questions[k].Category = questionCategory[Final.Questions[k].ID]

\* C2: a standalone X line directly followed by an option-shaped line marks
\* that option correct when it is committed, and the pending flag is consumed
\* by that option line, also when the option is discarded for want of a draft.
C2_PendingConsumedByNextOption ==
    (/\ pc = "scan"
     /\ i - 2 >= startIdx
     /\ MatchJustX(Line(i - 2))
     /\ OptionShaped(Line(i - 1))) =>
        /\ ~nextOptionIsCorrect
        /\ \A n \in DOMAIN optionLine :
              \A l \in DOMAIN optionLine[n] :
                  optionLine[n][l] = i - 1 => rawQuestions[n].options[l].Correct

\* a standalone X line lies between the option-shaped line before line j (or
\* the start offset) and line j
XSince(j) ==
    \E k \in startIdx..(j - 1) :
        /\ MatchJustX(Line(k))
        /\ \A m \in (k + 1)..(j - 1) : ~OptionShaped(Line(m))

\* C3: correctness is never inferred: an option of the returned catalog whose
\* last writing line was unmarked, with no standalone X line since the
\* preceding option-shaped line, is not correct.
C3_UnmarkedWithoutXIsFalse ==
    Returned =>
        \A k \in 1..Len(Final.Questions) :
            LET q == Final.Questions[k]
            IN  \A o \in 1..Len(q.Options) :
                    LET j == optionLine[q.ID][q.Options[o].Letter]
                    IN  (~MatchOptionWithX(Line(j)) /\ ~XSince(j)) => ~q.Options[o].Correct

\* C4: the IDs of the returned catalog are positive and strictly ascending
\* (hence pairwise distinct), whatever the order of the numbers in the input.
C4_IdsAscending ==
    Returned =>
        /\ \A k \in 1..Len(Final.Questions) : Final.Questions[k].ID >= 1
        /\ \A a, b \in 1..Len(Final.Questions) :
              a < b => Final.Questions[a].ID < Final.Questions[b].ID

C4_Witness ==
    /\ Returned
    /\ Len(Final.Questions) >= 2
    /\ questionLine[Final.Questions[1].ID] > questionLine[Final.Questions[2].ID]

\* C5: the option letters of every returned question are among a..f, strictly
\* alphabetical (hence distinct), and exactly the letters committed to the
\* question's draft.
C5_LettersAlphabetical ==
    Returned =>
        \A k \in 1..Len(Final.Questions) :
            LET q == Final.Questions[k]
            IN  /\ \A o \in 1..Len(q.Options) :
                      \E x \in 1..Len(Letters) : q.Options[o].Letter = Letters[x]
                /\ \A a, b \in 1..Len(q.Options) :
                      a < b => LetterIndex(q.Options[a].Letter)
                                  < LetterIndex(q.Options[b].Letter)
                /\ LettersOf(q) = DOMAIN optionLine[q.ID]

C5_Witness ==
    /\ Returned
    /\ \E k \in 1..Len(Final.Questions) :
          LET q == Final.Questions[k]
          IN  /\ LettersOf(q) = {"a", "b"}
              /\ optionLine[q.ID]["b"] < optionLine[q.ID]["a"]

\* C6: every returned question has a text longer than 5 and an option; no
\* draft with a short text or without options is returned; the total count is
\* the number of questions.
C6_OnlyCompleteDrafts ==
    Returned =>
        /\ \A k \in 1..Len(Final.Questions) :
              /\ StrLen(Final.Questions[k].Text) > 5
              /\ Len(Final.Questions[k].Options) >= 1
        /\ \A n \in DOMAIN rawQuestions :
              (StrLen(rawQuestions[n].text) <= 5 \/ DOMAIN optionLine[n] = {}) =>
                  \A k \in 1..Len(Final.Questions) : Final.Questions[k].ID # n
        /\ Final.TotalCount = Len(Final.Questions)

C6_Witness ==
    /\ Returned
    /\ Len(Final.Questions) >= 1
    /\ \E n \in DOMAIN rawQuestions :
          /\ DOMAIN optionLine[n] = {}
          /\ \A k \in 1..Len(Final.Questions) : Final.Questions[k].ID # n

\* all three calls of the batch have returned, the first and the third (the
\* same document) with a catalog
BothReturned ==
    /\ pc = "idle"
    /\ Len(results) = 3
    /\ results[1].ok
    /\ results[3].ok

WithoutTimestamp(c) == [c EXCEPT !.LastModified = 0]

C8_LastWriteWins ==
    /\ pc = "scan" =>
          \A n \in DOMAIN rawQuestions :
              /\ rawQuestions[n].text = QuestionTextAt(lines, questionLine[n])
              /\ \A l \in DOMAIN rawQuestions[n].options :
                    /\ l \in DOMAIN optionLine[n]
                    /\ optionLine[n][l] > questionLine[n]
    /\ Returned =>
          \A k \in 1..Len(Final.Questions) :
              LET q == Final.Questions[k]
              IN  /\ q.Text = QuestionTextAt(lines, questionLine[q.ID])
                  /\ \A l \in LettersOf(q) :
                        /\ l \in DOMAIN optionLine[q.ID]
                        /\ optionLine[q.ID][l] > questionLine[q.ID]

C8_Witness ==
    /\ Returned
    /\ \E d \in replacedDraft :
          \E k \in 1..Len(Final.Questions) :
              /\ Final.Questions[k].ID = d.number
              /\ DOMAIN d.options # {}
              /\ ~(DOMAIN d.options \subseteq LettersOf(Final.Questions[k]))

\* C9: a Parse call runs the extractor exactly once; when the extractor fails
\* the call returns an error wrapping the cause and no catalog, and parseText
\* is not run.
C9_ExtractOnceNoRetry ==
    /\ extractCalls <= 1
    /\ parseTextCalls <= 1
    /\ pc \in {"parseText", "scan"} => (extractCalls = 1 /\ failure = Nil)
    /\ (pc = "idle" /\ callNo >= 1) =>
          /\ extractCalls = 1
          /\ Len(results) = callNo
          /\ failure # Nil =>
                /\ ~results[callNo].ok
                /\ results[callNo].catalog = Nil
                /\ results[callNo].err[Len(results[callNo].err)] = failure
                /\ parseTextCalls = 0
          /\ failure = Nil =>
                /\ results[callNo].ok
                /\ results[callNo].err = Nil
                /\ parseTextCalls = 1

C9_Witness ==
    /\ pc = "idle"
    /\ callNo >= 1
    /\ failure # Nil
    /\ ~results[callNo].ok

\* C10: every parse starts from a fresh session, so a document parsed after
\* other documents returns the questions it returns when parsed first.
C10_IndependentParses ==
    /\ (pc = "scan" /\ i = startIdx) =>
          /\ rawQuestions = NoDrafts
          /\ lastQuestionNum = 0
          /\ ~nextOptionIsCorrect
          /\ currentCategory = SeedCategory(lines, <<>>)
    /\ BothReturned => results[1].catalog.Questions = results[3].catalog.Questions

C10_Witness ==
    /\ BothReturned
    /\ results[2].ok
    /\ Len(results[2].catalog.Questions) >= 1
    /\ Len(results[3].catalog.Questions) >= 1

\* a line has been classified in the current parse; the line classified last
Classifying == pc = "scan" /\ classified # <<>>
Last == classified[Len(classified)]

\* line k is accepted as a question line: not skipped as boilerplate, of
\* question shape, its number a positive integer, its inline text (if any)
\* holding a question mark
QuestionLineAt(k) ==
    LET t == Line(k)
    IN  /\ ~MatchEmpty(t)
        /\ ~IsBoilerplate(t)
        /\ MatchQuestionOnly(t) \/ MatchQuestionWithText(t)
        /\ ~AtoiErr(QuestionNumberWord(t))
        /\ Atoi(QuestionNumberWord(t)) >= 1
        /\ MatchQuestionWithText(t) => HasQuestionMark(QuestionInlineText(t))

\* C11: a question line whose accumulated text is no longer than 5 changes
\* neither the drafts nor the current question number.
C11_ShortQuestionChangesNothing ==
    (/\ Classifying
     /\ QuestionLineAt(Last)
     /\ StrLen(QuestionTextAt(lines, Last)) <= 5) =>
        /\ rawQuestions = before.rawQuestions
        /\ lastQuestionNum = before.lastQuestionNum

\* C12: a standalone X line sets the pending flag in every session state, also
\* when no question has been opened yet.
C12_StandaloneXAlwaysSetsPending ==
    (Classifying /\ MatchJustX(Line(Last))) => nextOptionIsCorrect

\* the text an option line holds after its letter
OptionFirst(t) == IF MatchOptionWithX(t) THEN OptionWithXText(t) ELSE OptionLineText(t)

QuestionShaped(t) == MatchQuestionOnly(t) \/ MatchQuestionWithText(t)

\* the lines the claim takes to end an option's text
OptionTerminator(t) ==
    OptionShaped(t) \/ QuestionShaped(t) \/ IsCategoryLine(t) \/ IsBoilerplate(t)

\* the first such line after line j, Len(lines) + 1 when there is none
OptionStop(j) ==
    MinOf({k \in (j + 1)..(Len(lines) + 1) :
              k = Len(lines) + 1 \/ OptionTerminator(Line(k))})

\* C13: the text of an option holds nothing of the first line after it that is
\* option-shaped, question-shaped, a category line or a boilerplate line, nor
\* of any later line: it is the text the option line yields in the document cut
\* before that line.
C13_OptionTextEndsAtTerminator ==
    pc = "scan" =>
        \A n \in DOMAIN rawQuestions :
            \A l \in DOMAIN rawQuestions[n].options :
                LET j == optionLine[n][l]
                IN  rawQuestions[n].options[l].Text =
                        OptionText(SubSeq(lines, 1, OptionStop(j) - 1), j,
                                   OptionFirst(Line(j)))

\* C16: every classified line that holds the category marker and a colon
\* becomes the current category, as its full trimmed text, also when it is a
\* boilerplate line or question- or option-shaped; any other line leaves the
\* category as it was.
C16_CategoryUpdatedOnEveryLine ==
    Classifying =>
        LET t == Line(Last)
        IN  currentCategory =
                IF HasSachgebiet(t) /\ HasColon(t) THEN t ELSE before.currentCategory

\* a boilerplate category line has replaced the category an option-shaped
\* category line had set, after a question-shaped category line
C16_Witness ==
    /\ Classifying
    /\ IsBoilerplate(Line(Last))
    /\ currentCategory = Line(Last)
    /\ before.currentCategory # currentCategory
    /\ OptionShaped(before.currentCategory)
    /\ \E n \in DOMAIN questionCategory :
          questionCategory[n] = Line(questionLine[n])

\* the letter an option line names
OptionLetter(t) ==
    IF MatchOptionWithX(t) THEN OptionWithXLetter(t) ELSE OptionLineLetter(t)

\* C14: an option line changes at most the entry of its letter in the draft of
\* the current question number, which it inserts or replaces whole (letter,
\* accumulated text, correctness); every other draft and letter is as before,
\* and nothing changes when no question is open or the number has no draft.
C14_OptionLineWritesOneEntry ==
    (Classifying /\ OptionShaped(Line(Last))) =>
        LET t == Line(Last)
            n == before.lastQuestionNum
            was == before.rawQuestions
        IN  IF n > 0 /\ n \in DOMAIN was /\ ~IsBoilerplate(t)
            THEN /\ DOMAIN rawQuestions = DOMAIN was
                 /\ \A m \in DOMAIN was \ {n} : rawQuestions[m] = was[m]
                 /\ rawQuestions[n].number = was[n].number
                 /\ rawQuestions[n].text = was[n].text
                 /\ DOMAIN rawQuestions[n].options =
                        DOMAIN was[n].options \cup {OptionLetter(t)}
                 /\ \A l \in DOMAIN was[n].options \ {OptionLetter(t)} :
                        rawQuestions[n].options[l] = was[n].options[l]
                 /\ rawQuestions[n].options[OptionLetter(t)] =
                        [Letter |-> OptionLetter(t),
                         Text |-> OptionText(lines, Last, OptionFirst(t)),
                         Correct |-> MatchOptionWithX(t) \/ before.nextOptionIsCorrect]
            ELSE rawQuestions = was

\* an option line has replaced the entry of its letter by a different one, next
\* to an entry of another letter
C14_Witness ==
    /\ Classifying
    /\ OptionShaped(Line(Last))
    /\ before.lastQuestionNum \in DOMAIN before.rawQuestions
    /\ LET was == before.rawQuestions[before.lastQuestionNum].options
           l == OptionLetter(Line(Last))
       IN  /\ l \in DOMAIN was
           /\ was[l] # rawQuestions[lastQuestionNum].options[l]
           /\ DOMAIN was # {l}

\* line k is a numeric-dot line that is no question: its number is no positive
\* integer, or its inline text holds no question mark
RejectedAt(k) ==
    LET t == Line(k)
        inline == QuestionInlineText(t)
    IN  /\ QuestionShaped(t)
        /\ \/ QuestionNumberWord(t) \in {"0.", "99999999999999999999."}
           \/ /\ MatchQuestionWithText(t)
              /\ \A x \in 1..Len(inline) : inline[x] \notin {"Wozu?", "Warum?", "Wieso?"}

\* C15: a numeric-dot line rejected as a question leaves the drafts, the
\* current question number and the pending flag as they were.
C15_RejectedLineChangesNothing ==
    (Classifying /\ RejectedAt(Last)) =>
        /\ rawQuestions = before.rawQuestions
        /\ lastQuestionNum = before.lastQuestionNum
        /\ nextOptionIsCorrect = before.nextOptionIsCorrect

\* an option line right after a rejected line has attached to the question
\* opened before it, and was marked by the X line before the rejected line
C15_Witness ==
    /\ Classifying
    /\ Last >= 4
    /\ MatchOptionLine(Line(Last))
    /\ RejectedAt(Last - 1)
    /\ MatchJustX(Line(Last - 2))
    /\ lastQuestionNum \in DOMAIN rawQuestions
    /\ questionLine[lastQuestionNum] < Last - 2
    /\ rawQuestions[lastQuestionNum].options[OptionLetter(Line(Last))].Correct

\* the document up to and with its line k
UpTo(k) == SubSeq(lines, 1, IF k < Len(lines) THEN k ELSE Len(lines))

\* lines j+1 .. j+n exist and are text lines: neither blank nor terminators
TextRun(j, n) == j + n <= Len(lines) /\ \A k \in (j + 1)..(j + n) : Line(k) = TextLine

\* C17: no accumulation pass reads a line more than 15 (question-number-only),
\* 10 (inline question) or 8 (option) lines after its opening line: every text
\* is the text its opening line yields in the document cut after that many
\* lines.
C17_LookaheadBounded ==
    pc = "scan" =>
        \A n \in DOMAIN rawQuestions :
            LET q == questionLine[n]
            IN  /\ rawQuestions[n].text =
                      QuestionTextAt(
                          UpTo(q + IF MatchQuestionOnly(Line(q)) THEN 15 ELSE 10), q)
                /\ \A l \in DOMAIN rawQuestions[n].options :
                      LET j == optionLine[n][l]
                      IN  rawQuestions[n].options[l].Text =
                              OptionText(UpTo(j + 8), j, OptionFirst(Line(j)))

\* a question-number-only line, an inline question line and an option line
\* have each been followed by more text lines than their window, and drafted
C17_Witness ==
    /\ pc = "scan"
    /\ \E n \in DOMAIN rawQuestions :
          MatchQuestionOnly(Line(questionLine[n])) /\ TextRun(questionLine[n], 16)
    /\ \E n \in DOMAIN rawQuestions :
          /\ MatchQuestionWithText(Line(questionLine[n]))
          /\ TextRun(questionLine[n], 11)
          /\ \E l \in DOMAIN rawQuestions[n].options : TextRun(optionLine[n][l], 9)

\* the document from its line k on
FromLine(k) == SubSeq(lines, k, Len(lines))

\* C18: the main loop starts at the first line of subsection-header shape, or
\* at the first line when there is none, and then with an empty category; the
\* session is fresh there, and no line before the start is classified, opens a
\* question, commits an option or is part of a text.
C18_StartsAtFirstHeader ==
    pc = "scan" =>
        /\ startIdx = IF HeaderLines(lines) = {} THEN 1 ELSE MinOf(HeaderLines(lines))
        /\ classified = <<>> =>
              /\ i = startIdx
              /\ rawQuestions = NoDrafts
              /\ lastQuestionNum = 0
              /\ ~nextOptionIsCorrect
              /\ HeaderLines(lines) = {} => currentCategory = <<>>
        /\ \A k \in 1..Len(classified) : classified[k] >= startIdx
        /\ \A n \in DOMAIN rawQuestions :
              LET q == questionLine[n]
              IN  /\ q >= startIdx
                  /\ rawQuestions[n].text =
                        QuestionTextAt(FromLine(startIdx), q - startIdx + 1)
                  /\ \A l \in DOMAIN rawQuestions[n].options :
                        LET j == optionLine[n][l]
                        IN  /\ j >= startIdx
                            /\ rawQuestions[n].options[l].Text =
                                  OptionText(FromLine(startIdx), j - startIdx + 1,
                                             OptionFirst(Line(j)))

\* a question line and an X line lie before the header; the one question
\* returned was opened after it, and its option is not marked
C18_Witness ==
    /\ Returned
    /\ startIdx = 3
    /\ QuestionLineAt(1)
    /\ MatchJustX(Line(2))
    /\ Len(Final.Questions) = 1
    /\ questionLine[Final.Questions[1].ID] > startIdx
    /\ ~Final.Questions[1].Options[1].Correct

\* the category lines among the 50 lines before line h
NearCategoryLines(h) ==
    {j \in 1..(h - 1) : h - j <= 50 /\ HasSachgebiet(Line(j)) /\ HasColon(Line(j))}

\* C19: when a subsection header is found, the main loop starts with the
\* category line nearest to the header among the 50 lines before it as the
\* category, and with the empty category when none of the 50 is a category
\* line.
C19_SeedIsNearestWithin50 ==
    (pc = "scan" /\ classified = <<>> /\ HeaderLines(lines) # {}) =>
        LET h == MinOf(HeaderLines(lines))
        IN  currentCategory =
                IF NearCategoryLines(h) = {} THEN <<>>
                ELSE Line(MaxOf(NearCategoryLines(h)))

\* the only category line lies 51 lines before the header: the category is empty
C19_Witness ==
    /\ pc = "scan"
    /\ classified = <<>>
    /\ startIdx >= 52
    /\ IsCategoryLine(Line(startIdx - 51))
    /\ MatchSectionHeader(Line(startIdx))
    /\ currentCategory = <<>>

\* the lines a .. b in order
Range(a, b) == [k \in 1..(b - a + 1) |-> a + k - 1]

\* C20: the main loop classifies every line from the start offset to the end
\* once and in order, and a line already joined into the text of the question
\* or option before it still acts at its turn: it sets the category, the
\* pending flag or the current question number as its own shape says.
C20_EveryLineClassifiedInTurn ==
    /\ pc = "scan" => (i <= Len(lines) + 1 /\ classified = Range(startIdx, i - 1))
    /\ Returned => classified = Range(startIdx, Len(lines))
    /\ Classifying =>
          LET t == Line(Last)
          IN  /\ IsCategoryLine(t) => currentCategory = t
              /\ (MatchJustX(t) /\ before.lastQuestionNum > 0) => nextOptionIsCorrect
              /\ QuestionLineAt(Last) => lastQuestionNum = Atoi(QuestionNumberWord(t))

\* an X line joined into the text of the inline question before it has set the
\* pending flag at its own turn, in a document that starts at a header
C20_Witness ==
    /\ Classifying
    /\ startIdx > 1
    /\ Last > startIdx
    /\ MatchJustX(Line(Last))
    /\ nextOptionIsCorrect
    /\ \E n \in DOMAIN rawQuestions :
          /\ questionLine[n] = Last - 1
          /\ rawQuestions[n].text =
                JoinSpace(QuestionInlineText(Line(Last - 1)), Line(Last))

\* the first standalone X line after line q, Len(lines) + 1 when there is none
XStop(q) ==
    MinOf({k \in (q + 1)..(Len(lines) + 1) : k = Len(lines) + 1 \/ MatchJustX(Line(k))})

\* C21: the text of a question holds nothing of a standalone X line after its
\* question line, on the question-number-only path and on the inline path
\* alike: it is the text the question line yields in the document cut before
\* that X line.
C21_QuestionTextWithoutX ==
    pc = "scan" =>
        \A n \in DOMAIN rawQuestions :
            LET q == questionLine[n]
            IN  rawQuestions[n].text =
                    QuestionTextAt(SubSeq(lines, 1, XStop(q) - 1), q)

====
